---------------------------- MODULE Spec2Model ----------------------------
(***************************************************************************)
(* Model of src/app.py: process_data (per-source file scan, date-keyed     *)
(* merge, CSV persistence) followed by plot_pr_evolution (range filter,    *)
(* rolling PR mean, yearly budget curve, recent-window averages, savefig), *)
(* driven by main.                                                         *)
(*                                                                         *)
(* Timestamps are day numbers counted from 2018-01-01 (= 0); every date    *)
(* the program handles is a midnight timestamp, so comparisons and         *)
(* timedelta(days=n) arithmetic are integer comparisons and subtraction.   *)
(* Texts (file base names, column headers, date cells) are kept in their   *)
(* textual form and go through the parsers below.                          *)
(***************************************************************************)
EXTENDS Integers, Sequences, FiniteSets, TLC

VARIABLES ghi_files, pr_files, pc, idx, ghi_dict, pr_dict, combined_df,
          csv, start_date, end_date, df, PR_MA30,
          Budget_PR, recent, plot_saved, error

vars == <<ghi_files, pr_files, pc, idx, ghi_dict, pr_dict, combined_df,
          csv, start_date, end_date, df, PR_MA30,
          Budget_PR, recent, plot_saved, error>>

-----------------------------------------------------------------------------
(* Bounds of the explored inputs *)

\* longest discovery sequence per source in the extractor inputs
MaxFiles == 2
\* largest number of dates per source in the sparse inputs
MaxRows == 3
\* longest run of consecutive daily files per source
MaxRun == 33

-----------------------------------------------------------------------------
(* Calendar: what pd.to_datetime does with a '%Y-%m-%d' text *)

EpochYear == 2018

IsLeap(y) == (y % 4 = 0 /\ y % 100 # 0) \/ y % 400 = 0

DaysInYear(y) == IF IsLeap(y) THEN 366 ELSE 365

DaysInMonth(y, m) ==
    IF m = 2 THEN (IF IsLeap(y) THEN 29 ELSE 28)
    ELSE IF m \in {4, 6, 9, 11} THEN 30 ELSE 31

RECURSIVE DaysBeforeYear(_)
DaysBeforeYear(y) ==
    IF y <= EpochYear THEN 0 ELSE DaysBeforeYear(y - 1) + DaysInYear(y - 1)

RECURSIVE DaysBeforeMonth(_, _)
DaysBeforeMonth(y, m) ==
    IF m <= 1 THEN 0 ELSE DaysBeforeMonth(y, m - 1) + DaysInMonth(y, m - 1)

\* the timestamp of a calendar date
DayNum(y, m, d) == DaysBeforeYear(y) + DaysBeforeMonth(y, m) + (d - 1)

\* the value pandas gives an unparseable date cell (errors='coerce')
NaT == -1

\* a text of the form YYYY-MM-DD, or any other text
YMD(y, m, d) == [kind |-> "ymd", y |-> y, m |-> m, d |-> d]
OtherText == [kind |-> "text", y |-> 0, m |-> 0, d |-> 0]

\* a text names a calendar date when its month and day exist; years
\* before EpochYear lie outside the explored inputs
IsValidDateText(t) ==
    /\ t.kind = "ymd"
    /\ t.y >= EpochYear
    /\ t.m \in 1..12
    /\ t.d \in 1..DaysInMonth(t.y, t.m)

\* pd.to_datetime(text, format='%Y-%m-%d'): NaT stands for the exception
\* (file name) or for the coerced invalid marker (date cell)
ToDatetime(t) == IF IsValidDateText(t) THEN DayNum(t.y, t.m, t.d) ELSE NaT

\* the calendar date of a timestamp (strftime), the inverse of DayNum
RECURSIVE YearOf(_, _)
YearOf(n, y) == IF n < DaysInYear(y) THEN y ELSE YearOf(n - DaysInYear(y), y + 1)

RECURSIVE MonthOf(_, _, _)
MonthOf(n, y, m) ==
    IF n < DaysInMonth(y, m) THEN m ELSE MonthOf(n - DaysInMonth(y, m), y, m + 1)

DateText(n) ==
    LET y == YearOf(n, EpochYear)
        r == n - DaysBeforeYear(y)
        m == MonthOf(r, y, 1)
    IN  YMD(y, m, r - DaysBeforeMonth(y, m) + 1)

-----------------------------------------------------------------------------
(* Column headers: col.strip().capitalize() *)

Lowers == <<"a", "d", "e", "g", "h", "i", "p", "r", "t">>
Uppers == <<"A", "D", "E", "G", "H", "I", "P", "R", "T">>

PosIn(c, s) == IF \E i \in 1..Len(s) : s[i] = c
               THEN CHOOSE i \in 1..Len(s) : s[i] = c ELSE 0

ToUpper(c) == IF PosIn(c, Lowers) > 0 THEN Uppers[PosIn(c, Lowers)] ELSE c
ToLower(c) == IF PosIn(c, Uppers) > 0 THEN Lowers[PosIn(c, Uppers)] ELSE c

RECURSIVE LStrip(_)
LStrip(s) == IF s # <<>> /\ Head(s) = " " THEN LStrip(Tail(s)) ELSE s

RECURSIVE RStrip(_)
RStrip(s) == IF s # <<>> /\ s[Len(s)] = " "
             THEN RStrip(SubSeq(s, 1, Len(s) - 1)) ELSE s

Strip(s) == RStrip(LStrip(s))

Capitalize(s) ==
    [i \in 1..Len(s) |-> IF i = 1 THEN ToUpper(s[i]) ELSE ToLower(s[i])]

NormalizeColumn(col) == Capitalize(Strip(col))

ColDate == <<"D", "a", "t", "e">>
ColGhi == <<"G", "h", "i">>
ColPr == <<"P", "r">>

-----------------------------------------------------------------------------
(* Reading one discovered file *)

\* A discovered .csv file: base name, the two headers as written in the
\* file, and the rows (date cell text and measurement).

\* df.columns = [col.strip().capitalize() ...]; the required-columns test
HasRequiredColumns(f, valcol) ==
    LET cols == {NormalizeColumn(f.date_col), NormalizeColumn(f.val_col)}
    IN  ~ (ColDate \notin cols \/ valcol \notin cols)

\* df[df['Date'] == expected_date] after pd.to_datetime(..., errors='coerce')
RECURSIVE MatchingRows(_, _)
MatchingRows(rows, expected_date) ==
    IF rows = <<>> THEN <<>>
    ELSE LET r == Head(rows)
             rest == MatchingRows(Tail(rows), expected_date)
         IN  IF ToDatetime(r.Date) # NaT /\ ToDatetime(r.Date) = expected_date
             THEN <<[Date |-> ToDatetime(r.Date), val |-> r.val]>> \o rest
             ELSE rest

EmptyDict == [d \in {} |-> 0]

\* dict[key] = value
DictSetFirstWins(dict, key, value) ==
    IF key \in DOMAIN dict THEN dict
    ELSE [d \in DOMAIN dict \cup {key} |-> IF d = key THEN value ELSE dict[d]]

DictSet(dict, key, value) ==
    [d \in DOMAIN dict \cup {key} |-> IF d = key THEN value ELSE dict[d]]

\* one iteration of the per-source loop: the dictionary after the file
ReadFile(dict, f, valcol) ==
    LET expected_date == ToDatetime(f.name)
    IN  IF expected_date = NaT THEN dict
        ELSE IF ~ HasRequiredColumns(f, valcol) THEN dict
        ELSE LET row == MatchingRows(f.rows, expected_date)
             IN  IF row # <<>> THEN DictSet(dict, expected_date, row[1])
                 ELSE dict

-----------------------------------------------------------------------------
(* Merge by date: lines 61-72 *)

\* sorted(<set of timestamps>)
RECURSIVE Sorted(_)
Sorted(S) ==
    IF S = {} THEN <<>>
    ELSE LET m == CHOOSE x \in S : \A y \in S : x <= y
         IN  <<m>> \o Sorted(S \ {m})

\* set(ghi_dict.keys()) & set(pr_dict.keys())
CommonKeys(gd, pd) == DOMAIN gd \cap DOMAIN pd

\* the merged_rows list built by the loop of lines 63-66
MergedRows(gd, pd) ==
    LET keys == Sorted(CommonKeys(gd, pd))
    IN  [i \in 1..Len(keys) |->
            [Date |-> keys[i],
             GHI |-> gd[keys[i]].val,
             PR |-> pd[keys[i]].val]]

\* sort_values('Date').reset_index(drop=True): a stable insertion sort
RECURSIVE InsertByDate(_, _)
InsertByDate(sorted, r) ==
    IF sorted = <<>> THEN <<r>>
    ELSE IF sorted[Len(sorted)].Date <= r.Date THEN Append(sorted, r)
    ELSE Append(InsertByDate(SubSeq(sorted, 1, Len(sorted) - 1), r),
                sorted[Len(sorted)])

SortByDateDescending(rows) ==
    LET RECURSIVE Asc(_)
        Asc(rs) == IF rs = <<>> THEN <<>>
                   ELSE InsertByDate(Asc(SubSeq(rs, 1, Len(rs) - 1)), rs[Len(rs)])
        a == Asc(rows)
    IN  [i \in 1..Len(a) |-> a[Len(a) + 1 - i]]

RECURSIVE SortByDate(_)
SortByDate(rows) ==
    IF rows = <<>> THEN <<>>
    ELSE InsertByDate(SortByDate(SubSeq(rows, 1, Len(rows) - 1)),
                      rows[Len(rows)])

\* the output file of line 70
NotWritten == [written |-> FALSE, rows |-> <<>>]

\* combined_df.to_csv(output_file, index=False)
ToCsvSkipped(rows) == NotWritten

ToCsv(rows) == [written |-> TRUE, rows |-> rows]

-----------------------------------------------------------------------------
(* plot_pr_evolution: the computed series *)

\* (df['Date'] >= start) & (df['Date'] <= end)
InRangeOpenEnd(date, start, end) == date >= start /\ date < end

InRange(date, start, end) == date >= start /\ date <= end

FilterRows(rows, start, end) ==
    SelectSeq(rows, LAMBDA r : InRange(r.Date, start, end))

\* a mean is kept as an exact fraction in lowest terms
RECURSIVE GCD(_, _)
GCD(a, b) == IF b = 0 THEN a ELSE GCD(b, a % b)

Frac(n, d) == LET g == GCD(n, d) IN [num |-> n \div g, den |-> d \div g]

NaN == [num |-> 0, den |-> 0]
Zero == [num |-> 0, den |-> 1]

RECURSIVE SumSeq(_)
SumSeq(s) == IF s = <<>> THEN 0 ELSE Head(s) + SumSeq(Tail(s))

\* Series.mean() of a non-empty numeric column
Mean(vals) == Frac(SumSeq(vals), Len(vals))

PRColumn(rows) == [i \in 1..Len(rows) |-> rows[i].PR]

\* the window and min_periods of line 83
WINDOW == 30
MIN_PERIODS == 1

\* rolling(window, min_periods).mean(): the sliding sum adds the entering
\* value, drops the value that leaves the window, and divides by the
\* number of observations held
RECURSIVE Roll(_, _, _, _, _, _)
Roll(vals, i, sum, nobs, window, min_periods) ==
    IF i > Len(vals) THEN <<>>
    ELSE LET leaving == i > window
             s == sum + vals[i] - (IF leaving THEN vals[i - window] ELSE 0)
             n == nobs + 1 - (IF leaving THEN 1 ELSE 0)
         IN  <<IF n >= min_periods THEN Frac(s, n) ELSE NaN>>
             \o Roll(vals, i + 1, s, n, window, min_periods)

ExpandingMean(vals, window, min_periods) ==
    Roll(vals, 1, 0, 0, Len(vals) + 1, min_periods)

RollingMean(vals, window, min_periods) ==
    Roll(vals, 1, 0, 0, window, min_periods)

\* Budget values are counted in units of 73.9 / 1000^3, so that
\* 73.9 * 0.992^k is the integer 992^k * 1000^(3-k)
FIRST_YEAR == 2019
END_YEAR == 2023
DecayNum == 992
DecayDen == 1000

RECURSIVE Pow(_, _)
Pow(b, e) == IF e = 0 THEN 1 ELSE b * Pow(b, e - 1)

MaxExponent == (END_YEAR - 1) - FIRST_YEAR

\* 73.9 * (0.992 ** k)
BudgetValue(k) == Pow(DecayNum, k) * Pow(DecayDen, MaxExponent - k)

\* df['Budget_PR'] = 73.9
BudgetDefault == BudgetValue(0)

\* the mask of line 89 for one year
InPeriodOpenEnd(date, year) ==
    date >= DayNum(year, 7, 1) /\ date < DayNum(year + 1, 6, 30)

InPeriod(date, year) ==
    date >= DayNum(year, 7, 1) /\ date <= DayNum(year + 1, 6, 30)

\* the loop of lines 86-90 as it acts on one row
RECURSIVE BudgetLoop(_, _, _)
BudgetLoop(date, year, cur) ==
    IF year >= END_YEAR THEN cur
    ELSE BudgetLoop(date, year + 1,
                    IF InPeriod(date, year)
                    THEN BudgetValue(year - FIRST_YEAR) ELSE cur)

BudgetColumn(rows) ==
    [i \in 1..Len(rows) |-> BudgetLoop(rows[i].Date, FIRST_YEAR, BudgetDefault)]

\* df['Date'].max()
MaxDate(rows) ==
    CHOOSE d \in {rows[i].Date : i \in 1..Len(rows)} :
        \A i \in 1..Len(rows) : rows[i].Date <= d

Periods == {7, 30, 60}

\* df[df['Date'] > (last_date - timedelta(days=period))]
RecentDataInclusive(rows, last_date, period) ==
    SelectSeq(rows, LAMBDA r : r.Date >= last_date - period)

RecentDataAhead(rows, last_date, period) ==
    SelectSeq(rows, LAMBDA r : r.Date > last_date + period)

RecentData(rows, last_date, period) ==
    SelectSeq(rows, LAMBDA r : r.Date > last_date - period)

\* recent_data['PR'].mean() if not recent_data.empty else 0
AvgPR(recent_data) ==
    IF recent_data # <<>> THEN Mean(PRColumn(recent_data)) ELSE Zero

RecentSummaries(rows) ==
    LET last_date == MaxDate(rows)
    IN  [p \in Periods |->
            LET recent_data == RecentData(rows, last_date, p)
            IN  [rows |-> recent_data, avg_pr |-> AvgPR(recent_data)]]

-----------------------------------------------------------------------------
(* The inputs explored: directory listings in discovery order *)

File(name, date_col, val_col, rows) ==
    [name |-> name, date_col |-> date_col, val_col |-> val_col, rows |-> rows]

Row(date_text, val) == [Date |-> date_text, val |-> val]

T1 == YMD(2021, 1, 3)
T2 == YMD(2021, 1, 4)
BadDay == YMD(2021, 2, 30)

\* GHI files: two files for the same date in different subdirectories with
\* different values, a file with several matching rows, a name that is no
\* calendar date, a missing Date column, and a file with no matching row
GhiPool ==
    { File(T1, <<"D", "a", "t", "e">>, <<"G", "H", "I">>, <<Row(T1, 3)>>),
      File(T1, <<" ", "d", "a", "t", "e", " ">>, <<"g", "h", "i">>, <<Row(T1, 5)>>),
      File(T2, <<"D", "A", "T", "E">>, <<" ", "G", "h", "i">>,
           <<Row(T1, 1), Row(T2, 2), Row(T2, 6)>>),
      File(BadDay, <<"D", "a", "t", "e">>, <<"G", "h", "i">>, <<Row(T1, 4)>>),
      File(T1, <<"D", "a", "t">>, <<"G", "h", "i">>, <<Row(T1, 7)>>),
      File(T2, <<"D", "a", "t", "e">>, <<"G", "h", "i">>,
           <<Row(T1, 4), Row(OtherText, 4)>>) }

\* PR files: the same kinds, with a text name and a missing PR column
PrPool ==
    { File(T1, <<"D", "a", "t", "e">>, <<"P", "R">>, <<Row(T1, 70)>>),
      File(T1, <<"d", "a", "t", "e">>, <<"p", "r", " ">>, <<Row(T1, 80)>>),
      File(T2, <<"D", "a", "t", "e">>, <<"P", "r">>,
           <<Row(OtherText, 10), Row(T2, 60), Row(T2, 90)>>),
      File(OtherText, <<"D", "a", "t", "e">>, <<"P", "r">>, <<Row(T1, 50)>>),
      File(T1, <<"D", "a", "t", "e">>, <<"G", "h", "i">>, <<Row(T1, 40)>>),
      File(T2, <<"D", "a", "t", "e">>, <<"P", "r">>, <<Row(T1, 30)>>) }

RECURSIVE SeqsUpTo(_, _)
SeqsUpTo(S, n) ==
    IF n = 0 THEN {<<>>}
    ELSE LET shorter == SeqsUpTo(S, n - 1)
         IN  shorter \cup {Append(q, x) : q \in shorter, x \in S}

\* one source is listed with up to MaxFiles files, the other with at most one
ExtractorInputs ==
    { [ghi |-> g, pr |-> p] :
        g \in SeqsUpTo(GhiPool, MaxFiles), p \in SeqsUpTo(PrPool, 1) }
    \cup
    { [ghi |-> g, pr |-> p] :
        g \in SeqsUpTo(GhiPool, 1), p \in SeqsUpTo(PrPool, MaxFiles) }

\* well-formed daily files: the measurement of a day is fixed by the day
GhiOf(day) == day % 8
PrOf(day) == 10 + 10 * ((day + 4) % 5)

GoodGhi(day) ==
    File(DateText(day), <<"D", "a", "t", "e">>, <<"G", "H", "I">>,
         <<Row(DateText(day), GhiOf(day))>>)

GoodPr(day) ==
    File(DateText(day), <<"D", "a", "t", "e">>, <<"P", "R">>,
         <<Row(DateText(day), PrOf(day))>>)

Reverse(s) == [i \in 1..Len(s) |-> s[Len(s) + 1 - i]]

\* both sources hold the same days; GHI is discovered in ascending and PR
\* in descending date order
Listing(days) ==
    LET asc == Sorted(days)
    IN  [ghi |-> [i \in 1..Len(asc) |-> GoodGhi(asc[i])],
         pr |-> Reverse([i \in 1..Len(asc) |-> GoodPr(asc[i])])]

\* days on both sides of every budget period boundary
BudgetDays ==
    { DayNum(2019, 6, 30), DayNum(2019, 7, 1), DayNum(2020, 1, 1),
      DayNum(2020, 6, 30), DayNum(2020, 7, 1), DayNum(2021, 1, 1),
      DayNum(2021, 6, 30), DayNum(2021, 7, 1), DayNum(2022, 6, 30),
      DayNum(2022, 7, 1), DayNum(2023, 6, 30), DayNum(2023, 7, 1) }

\* a latest day and the days just inside and just outside each recent window
Anchor == DayNum(2021, 3, 15)
WindowDays ==
    { Anchor, Anchor - 6, Anchor - 7, Anchor - 29, Anchor - 30,
      Anchor - 59, Anchor - 60 }

SmallSubsets(S) == { T \in SUBSET S : Cardinality(T) <= MaxRows }

SparseInputs ==
    { Listing(T) : T \in SmallSubsets(BudgetDays) \cup SmallSubsets(WindowDays) }

\* runs of consecutive days: GHI from RunStart, PR from RunStart + offset
RunStart == DayNum(2021, 1, 1)
RunOffsets == {0, 2}

RunInputs ==
    { [ghi |-> [i \in 1..n |-> GoodGhi(RunStart + i - 1)],
       pr |-> [i \in 1..n |-> GoodPr(RunStart + k + i - 1)]] :
        n \in 1..MaxRun, k \in RunOffsets }

Inputs == ExtractorInputs \cup SparseInputs \cup RunInputs

\* --start_date / --end_date as given on the command line
Ranges ==
    { <<YMD(2019, 7, 1), YMD(2022, 3, 24)>>,
      <<YMD(2018, 1, 1), YMD(2024, 12, 31)>>,
      <<YMD(2021, 1, 3), YMD(2021, 1, 3)>>,
      <<YMD(2021, 1, 2), YMD(2021, 2, 1)>>,
      <<YMD(2022, 1, 1), YMD(2022, 12, 31)>> }

-----------------------------------------------------------------------------
(* The run of main *)

NoRecent == [p \in Periods |-> [rows |-> <<>>, avg_pr |-> NaN]]

Init ==
    /\ \E input \in Inputs :
          /\ ghi_files = input.ghi
          /\ pr_files = input.pr
    /\ pc = "ghi"
    /\ idx = 1
    /\ ghi_dict = EmptyDict
    /\ pr_dict = EmptyDict
    /\ combined_df = <<>>
    /\ csv = NotWritten
    /\ start_date = NaT
    /\ end_date = NaT
    /\ df = <<>>
    /\ PR_MA30 = <<>>
    /\ Budget_PR = <<>>
    /\ recent = NoRecent
    /\ plot_saved = FALSE
    /\ error = "none"

\* lines 25-40: one iteration of the GHI loop
ReadGhiFile ==
    /\ pc = "ghi"
    /\ idx <= Len(ghi_files)
    /\ ghi_dict' = ReadFile(ghi_dict, ghi_files[idx], ColGhi)
    /\ idx' = idx + 1
    /\ UNCHANGED <<ghi_files, pr_files, pc, pr_dict, combined_df, csv, start_date, end_date, df, PR_MA30, Budget_PR,
                   recent, plot_saved, error>>

\* line 43: the GHI listing is exhausted, the PR loop starts
StartPr ==
    /\ pc = "ghi"
    /\ idx > Len(ghi_files)
    /\ pc' = "pr"
    /\ idx' = 1
    /\ pr_dict' = EmptyDict
    /\ UNCHANGED <<ghi_files, pr_files, ghi_dict, combined_df, csv, start_date, end_date, df, PR_MA30, Budget_PR,
                   recent, plot_saved, error>>

\* lines 44-59: one iteration of the PR loop
ReadPrFile ==
    /\ pc = "pr"
    /\ idx <= Len(pr_files)
    /\ pr_dict' = ReadFile(pr_dict, pr_files[idx], ColPr)
    /\ idx' = idx + 1
    /\ UNCHANGED <<ghi_files, pr_files, pc, ghi_dict, combined_df, csv, start_date, end_date, df, PR_MA30, Budget_PR,
                   recent, plot_saved, error>>

\* lines 61-72: merge, sort, write the CSV, return.  pd.DataFrame([]) has no
\* columns, so sort_values('Date') raises KeyError before to_csv is reached.
Merge ==
    /\ pc = "pr"
    /\ idx > Len(pr_files)
    /\ LET merged_rows == MergedRows(ghi_dict, pr_dict)
       IN  IF merged_rows = <<>>
           THEN /\ error' = "KeyError"
                /\ pc' = "aborted"
                /\ UNCHANGED <<combined_df, csv>>
           ELSE /\ combined_df' = SortByDate(merged_rows)
                /\ csv' = ToCsv(combined_df')
                /\ pc' = "plot"
                /\ error' = error
    /\ UNCHANGED <<ghi_files, pr_files, idx, ghi_dict, pr_dict, start_date,
                   end_date, df, PR_MA30, Budget_PR, recent, plot_saved>>

\* lines 77-81: filter to the requested range, raise ValueError when empty
FilterRange ==
    /\ pc = "plot"
    /\ \E range \in Ranges :
          /\ start_date' = ToDatetime(range[1])
          /\ end_date' = ToDatetime(range[2])
    /\ df' = FilterRows(combined_df, start_date', end_date')
    /\ IF df' = <<>>
       THEN error' = "ValueError" /\ pc' = "aborted"
       ELSE error' = error /\ pc' = "metrics"
    /\ UNCHANGED <<ghi_files, pr_files, idx, ghi_dict, pr_dict, combined_df,
                   csv, PR_MA30, Budget_PR, recent,
                   plot_saved>>

\* lines 83-116: rolling mean, budget curve, recent-window averages
ComputeMetrics ==
    /\ pc = "metrics"
    /\ PR_MA30' = RollingMean(PRColumn(df), WINDOW, MIN_PERIODS)
    /\ Budget_PR' = BudgetColumn(df)
    /\ recent' = RecentSummaries(df)
    /\ pc' = "save"
    /\ UNCHANGED <<ghi_files, pr_files, idx, ghi_dict, pr_dict, combined_df,
                   csv, start_date, end_date, df,
                   plot_saved, error>>

\* lines 118-128: plt.savefig(output_file)
SaveFig ==
    /\ pc = "save"
    /\ plot_saved' = TRUE
    /\ pc' = "done"
    /\ UNCHANGED <<ghi_files, pr_files, idx, ghi_dict, pr_dict, combined_df,
                   csv, start_date, end_date, df, PR_MA30,
                   Budget_PR, recent, error>>

Next ==
    \/ ReadGhiFile
    \/ StartPr
    \/ ReadPrFile
    \/ Merge
    \/ FilterRange
    \/ ComputeMetrics
    \/ SaveFig

Spec == Init /\ [][Next]_vars

-----------------------------------------------------------------------------
(* Properties of process_data *)

Returned == pc \in {"plot", "metrics", "save", "done"}
              \/ (pc = "aborted" /\ error = "ValueError")

DatesOf(rows) == [i \in 1..Len(rows) |-> rows[i].Date]

\* C1: a table produced by process_data has a row for a date iff the date
\* is a key of both indices, each row carries that date's GHI and PR
\* values, and the dates are strictly increasing (GHI for 2021-01-01..05
\* and PR for 2021-01-03..07 give exactly 2021-01-03, 04, 05 in order).
C1_ReconciledTable ==
    Returned =>
        /\ \A d \in DOMAIN ghi_dict \cup DOMAIN pr_dict
                    \cup {combined_df[i].Date : i \in 1..Len(combined_df)} :
              (\E i \in 1..Len(combined_df) : combined_df[i].Date = d)
                  <=> (d \in DOMAIN ghi_dict /\ d \in DOMAIN pr_dict)
        /\ \A i \in 1..Len(combined_df) :
              /\ combined_df[i].Date \in DOMAIN ghi_dict
              /\ combined_df[i].Date \in DOMAIN pr_dict
              /\ combined_df[i].GHI = ghi_dict[combined_df[i].Date].val
              /\ combined_df[i].PR = pr_dict[combined_df[i].Date].val
        /\ \A i, j \in 1..Len(combined_df) :
              i < j => combined_df[i].Date < combined_df[j].Date
        /\ (/\ DOMAIN ghi_dict = DayNum(2021, 1, 1)..DayNum(2021, 1, 5)
            /\ DOMAIN pr_dict = DayNum(2021, 1, 3)..DayNum(2021, 1, 7))
              => DatesOf(combined_df)
                   = <<DayNum(2021, 1, 3), DayNum(2021, 1, 4), DayNum(2021, 1, 5)>>

C1_Witness ==
    /\ pc = "plot"
    /\ DOMAIN ghi_dict = DayNum(2021, 1, 1)..DayNum(2021, 1, 5)
    /\ DOMAIN pr_dict = DayNum(2021, 1, 3)..DayNum(2021, 1, 7)
    /\ Len(combined_df) = 3
    /\ combined_df[1] = [Date |-> DayNum(2021, 1, 3),
                         GHI |-> GhiOf(DayNum(2021, 1, 3)),
                         PR |-> PrOf(DayNum(2021, 1, 3))]

\* C2 (as claimed): when the two indices have no date in common, the merge
\* completes normally with an empty table, and the only failure that can
\* follow is the empty-range ValueError of plot_pr_evolution.
C2_EmptyIntersectionCompletes ==
    (pc \notin {"ghi", "pr"} /\ DOMAIN ghi_dict \cap DOMAIN pr_dict = {})
        => error \in {"none", "ValueError"}

\* C3 (as claimed): in a run that aborts, neither the CSV nor the plot has
\* been written.
C3_NothingPersistedOnAbort ==
    pc = "aborted" => (~ csv.written /\ ~ plot_saved)

\* C3 (amended): in a run that aborts, the plot has not been written; when
\* the abort is the empty-range ValueError, the CSV of the reconciled table
\* has already been written by process_data.
C3_PlotNotPersistedOnAbort ==
    pc = "aborted" =>
        /\ ~ plot_saved
        /\ error = "ValueError" => (csv.written /\ csv.rows = combined_df)

C3_Witness ==
    /\ pc = "aborted"
    /\ error = "ValueError"
    /\ csv.written
    /\ Len(csv.rows) > 0
    /\ ~ plot_saved

\* C9: while and after a source is read, its index holds, for every date d,
\* the first matching row of the last file (in discovery order) that is
\* valid for d, and no entry for a date without a valid file; a skipped
\* file changes nothing and never aborts the run.
FileDate(f) == IF IsValidDateText(f.name)
               THEN DayNum(f.name.y, f.name.m, f.name.d) ELSE NaT

CellMatches(cell, d) == IsValidDateText(cell) /\ DayNum(cell.y, cell.m, cell.d) = d

ValidFor(f, d, valcol) ==
    /\ d # NaT
    /\ FileDate(f) = d
    /\ NormalizeColumn(f.date_col) = ColDate \/ NormalizeColumn(f.val_col) = ColDate
    /\ NormalizeColumn(f.date_col) = valcol \/ NormalizeColumn(f.val_col) = valcol
    /\ \E j \in 1..Len(f.rows) : CellMatches(f.rows[j].Date, d)

ExpectedIndex(files, valcol) ==
    LET ValidAt(d) == {i \in 1..Len(files) : ValidFor(files[i], d, valcol)}
        days == {d \in {FileDate(files[i]) : i \in 1..Len(files)} : ValidAt(d) # {}}
    IN  [d \in days |->
            LET last == CHOOSE i \in ValidAt(d) : \A k \in ValidAt(d) : k <= i
                rows == files[last].rows
                first == CHOOSE j \in 1..Len(rows) :
                            /\ CellMatches(rows[j].Date, d)
                            /\ \A k \in 1..(j - 1) : ~ CellMatches(rows[k].Date, d)
            IN  [Date |-> d, val |-> rows[first].val]]

GhiProcessed == IF pc = "ghi" THEN SubSeq(ghi_files, 1, idx - 1) ELSE ghi_files

PrProcessed == IF pc = "ghi" THEN <<>>
               ELSE IF pc = "pr" THEN SubSeq(pr_files, 1, idx - 1) ELSE pr_files

C9_LastValidFileWins ==
    /\ ghi_dict = ExpectedIndex(GhiProcessed, ColGhi)
    /\ pr_dict = ExpectedIndex(PrProcessed, ColPr)
    /\ pc \in {"ghi", "pr"} => error = "none"

\* two valid GHI files for 2021-01-03 followed each other and the later
\* value is held; the only PR file was skipped and left the PR index empty
C9_Witness ==
    /\ pc = "pr"
    /\ idx = 2
    /\ Len(ghi_files) = 2
    /\ Len(pr_files) = 1
    /\ ValidFor(ghi_files[1], DayNum(2021, 1, 3), ColGhi)
    /\ ValidFor(ghi_files[2], DayNum(2021, 1, 3), ColGhi)
    /\ ghi_files[1].rows[1].val # ghi_files[2].rows[1].val
    /\ ghi_dict[DayNum(2021, 1, 3)].val = ghi_files[2].rows[1].val
    /\ FileDate(pr_files[1]) = DayNum(2021, 1, 3)
    /\ ~ ValidFor(pr_files[1], DayNum(2021, 1, 3), ColPr)
    /\ pr_dict = EmptyDict

-----------------------------------------------------------------------------
(* Properties of plot_pr_evolution *)

Filtered == pc \in {"metrics", "save", "done"}
              \/ (pc = "aborted" /\ error = "ValueError")

\* C4: plot_pr_evolution raises the empty-range ValueError exactly when no
\* reconciled row has start_date <= date <= end_date (both inclusive), and
\* it does so before any metric is computed or any file is saved.
C4_EmptyRangeExactly ==
    Filtered =>
        /\ (error = "ValueError")
              <=> ~ \E i \in 1..Len(combined_df) :
                        /\ start_date <= combined_df[i].Date
                        /\ combined_df[i].Date <= end_date
        /\ error = "ValueError" =>
              /\ pc = "aborted"
              /\ PR_MA30 = <<>>
              /\ Budget_PR = <<>>
              /\ recent = NoRecent
              /\ ~ plot_saved

\* a single in-range row, dated exactly start_date and exactly end_date
C4_Witness ==
    /\ pc = "metrics"
    /\ error = "none"
    /\ Len(combined_df) = 2
    /\ Len(df) = 1
    /\ df[1].Date = start_date
    /\ df[1].Date = end_date

Computed == pc \in {"save", "done"}

\* C5 (as claimed): an in-range row before 2019-07-01 has budget 73.9, and
\* an in-range row after 2023-06-30 keeps the last period's value
\* 73.9 * 0.992^3 instead of falling back to 73.9.
C5_UncoveredRowsKeepPrecedingValue ==
    Computed =>
        \A i \in 1..Len(df) :
            /\ df[i].Date < DayNum(2019, 7, 1) => Budget_PR[i] = 1000 * 1000 * 1000
            /\ df[i].Date > DayNum(2023, 6, 30) => Budget_PR[i] = 992 * 992 * 992

\* C6: an in-range row dated within [July 1 of Y, June 30 of Y+1], for Y in
\* 2019..2022, has budget 73.9 * 0.992^(Y - 2019): 2019-07-01 and 2020-06-30
\* get exponent 0, 2020-07-01 and 2021-01-01 get exponent 1.
BudgetYear(date) ==
    LET t == DateText(date) IN IF t.m >= 7 THEN t.y ELSE t.y - 1

ExpectedBudget(k) ==
    CASE k = 0 -> 1000 * 1000 * 1000
      [] k = 1 -> 992 * 1000 * 1000
      [] k = 2 -> 992 * 992 * 1000
      [] k = 3 -> 992 * 992 * 992

C6_BudgetByPeriod ==
    Computed =>
        /\ Len(Budget_PR) = Len(df)
        /\ \A i \in 1..Len(df) :
              /\ BudgetYear(df[i].Date) \in 2019..2022
                    => Budget_PR[i] = ExpectedBudget(BudgetYear(df[i].Date) - 2019)
              /\ df[i].Date \in {DayNum(2019, 7, 1), DayNum(2020, 6, 30)}
                    => Budget_PR[i] = ExpectedBudget(0)
              /\ df[i].Date \in {DayNum(2020, 7, 1), DayNum(2021, 1, 1)}
                    => Budget_PR[i] = ExpectedBudget(1)

C6_Witness ==
    /\ pc = "save"
    /\ DatesOf(df) = <<DayNum(2020, 6, 30), DayNum(2020, 7, 1), DayNum(2022, 7, 1)>>
    /\ Budget_PR = <<ExpectedBudget(0), ExpectedBudget(1), ExpectedBudget(3)>>

\* C7: the rolling mean of the i-th in-range row is the arithmetic mean of
\* the PR values of the last min(30, i) in-range rows up to and including
\* row i; rows outside the range enter no window, no window is empty
\* (in-range PR values [10, 20, 30] give [10, 15, 20]).
RowsInRange ==
    SelectSeq(combined_df,
              LAMBDA r : start_date <= r.Date /\ r.Date <= end_date)

RECURSIVE SumPR(_, _, _)
SumPR(rows, lo, hi) ==
    IF lo > hi THEN 0 ELSE rows[hi].PR + SumPR(rows, lo, hi - 1)

C7_RollingMean ==
    Computed =>
        /\ Len(PR_MA30) = Len(RowsInRange)
        /\ \A i \in 1..Len(RowsInRange) :
              LET k == IF i < 30 THEN i ELSE 30
              IN  /\ k >= 1
                  /\ PR_MA30[i].den > 0
                  /\ PR_MA30[i].num * k
                       = SumPR(RowsInRange, i - k + 1, i) * PR_MA30[i].den
        /\ PRColumn(df) = <<10, 20, 30>>
              => PR_MA30 = <<Frac(10, 1), Frac(15, 1), Frac(20, 1)>>

\* more than 30 in-range rows, with reconciled rows before and after the range
C7_Witness ==
    /\ pc = "save"
    /\ Len(df) > 30
    /\ combined_df[1].Date < start_date
    /\ combined_df[Len(combined_df)].Date > end_date
    /\ PR_MA30[Len(df)] # Mean(PRColumn(df))

\* C8: for each window w in 7, 30, 60 the recent average is the mean of PR
\* over exactly the in-range rows dated strictly after (latest in-range
\* date - w days), a row dated exactly w days before the latest date being
\* excluded; a window without rows gives 0.
LatestDate ==
    CHOOSE d \in {df[i].Date : i \in 1..Len(df)} :
        \A i \in 1..Len(df) : df[i].Date <= d

RECURSIVE SumPROver(_)
SumPROver(I) ==
    IF I = {} THEN 0
    ELSE LET i == CHOOSE x \in I : TRUE IN df[i].PR + SumPROver(I \ {i})

C8_RecentWindowAverage ==
    Computed =>
        \A w \in {7, 30, 60} :
            LET I == {i \in 1..Len(df) : df[i].Date + w > LatestDate}
            IN  /\ Len(recent[w].rows) = Cardinality(I)
                /\ \A i \in 1..Len(df) :
                      df[i].Date + w = LatestDate
                          => \A j \in 1..Len(recent[w].rows) : recent[w].rows[j] # df[i]
                /\ IF I = {}
                   THEN recent[w].avg_pr = [num |-> 0, den |-> 1]
                   ELSE /\ recent[w].avg_pr.den > 0
                        /\ recent[w].avg_pr.num * Cardinality(I)
                             = SumPROver(I) * recent[w].avg_pr.den

\* rows dated exactly 7 and exactly 30 days before the latest date are left
\* out of the 7-day and of the 30-day window
C8_Witness ==
    /\ pc = "save"
    /\ Len(df) = 3
    /\ df[1].Date + 30 = df[3].Date
    /\ df[2].Date + 7 = df[3].Date
    /\ Len(recent[7].rows) = 1
    /\ Len(recent[30].rows) = 2
    /\ Len(recent[60].rows) = 3
    /\ recent[30].avg_pr = Frac(df[2].PR + df[3].PR, 2)

\* C10: past the empty-range check every recent window holds the row of the
\* latest in-range date, so no window is empty and the fallback 0 is never
\* produced, and the 7-day rows are among the 30-day rows, which are among
\* the 60-day rows.
RowSet(rows) == {rows[i] : i \in 1..Len(rows)}

C10_WindowsNonEmptyAndNested ==
    Computed =>
        /\ \A w \in {7, 30, 60} :
              /\ recent[w].rows # <<>>
              /\ \E r \in RowSet(recent[w].rows) : r.Date = LatestDate
              /\ recent[w].avg_pr # [num |-> 0, den |-> 1]
        /\ RowSet(recent[7].rows) \subseteq RowSet(recent[30].rows)
        /\ RowSet(recent[30].rows) \subseteq RowSet(recent[60].rows)

\* the 7-day window holds only the latest row, the 30-day and 60-day
\* windows one row more, and one in-range row lies outside all of them
C10_Witness ==
    /\ pc = "done"
    /\ Len(df) = 3
    /\ Len(recent[7].rows) = 1
    /\ Len(recent[30].rows) = 2
    /\ Len(recent[60].rows) = 2
    /\ recent[7].rows[1].Date = LatestDate

=============================================================================
